---------------------------- MODULE Spec2Model ----------------------------
(***************************************************************************)
(* Model of plugins/scaffolder/src/components/fields/RepoUrlPicker/        *)
(* RepoUrlPicker.tsx: the form-data codec (splitFormData,                  *)
(* serializeFormData), the conditional rendering of the inputs, the        *)
(* default-host effect and the credential request.                         *)
(*                                                                         *)
(* A JavaScript string is a sequence of one-character strings; the value   *)
(* undefined is the one-element sequence Undef, which is no string.        *)
(***************************************************************************)
EXTENDS Integers, Sequences, FiniteSets, TLC

Undef == <<"undefined">>

IsStr(x) == x # Undef

\* JavaScript truthiness of a string-or-undefined value (`if (x)`, `!x`, `x || y`).
Truthy(x) == x # Undef /\ x # <<>>

\* `a || b` on string-or-undefined values.
Or(a, b) == IF Truthy(a) THEN a ELSE b

(***************************************************************************)
(* Characters.  Ascii[i] is the character with code 31 + i (the grave       *)
(* accent, which a TLA+ string cannot hold, is written U+0060).            *)
(***************************************************************************)
Ascii ==
  << " ", "!", "\"", "#", "$", "%", "&", "'", "(", ")", "*", "+", ",", "-", ".", "/",
     "0", "1", "2", "3", "4", "5", "6", "7", "8", "9", ":", ";", "<", "=", ">", "?",
     "@", "A", "B", "C", "D", "E", "F", "G", "H", "I", "J", "K", "L", "M", "N", "O",
     "P", "Q", "R", "S", "T", "U", "V", "W", "X", "Y", "Z", "[", "\\", "]", "^", "_",
     "U+0060", "a", "b", "c", "d", "e", "f", "g", "h", "i", "j", "k", "l", "m", "n", "o",
     "p", "q", "r", "s", "t", "u", "v", "w", "x", "y", "z", "{", "|", "}", "~" >>

Printable == {Ascii[i] : i \in 1..Len(Ascii)}

Ord(c) == 31 + (CHOOSE i \in 1..Len(Ascii) : Ascii[i] = c)

\* The character a decoded byte stands for.  A byte outside printable ASCII
\* becomes a token that is no printable character: a C0 control or DEL keeps
\* its code, a byte >= 0x80 that is not part of a valid UTF-8 sequence decodes
\* to U+FFFD.
Chr(n) ==
  IF n >= 32 /\ n <= 126 THEN Ascii[n - 31]
  ELSE IF n >= 128 THEN "U+FFFD"
  ELSE "U+00" \o ToString(n)

Digits == <<"0", "1", "2", "3", "4", "5", "6", "7", "8", "9">>
HexDigits == Digits \o <<"A", "B", "C", "D", "E", "F">>
LowerHex == <<"a", "b", "c", "d", "e", "f">>
Upper == {Ascii[i] : i \in 34..59}

IsDigit(c) == \E i \in 1..10 : Digits[i] = c
IsHex(c) == IsDigit(c) \/ (\E i \in 11..16 : HexDigits[i] = c) \/ (\E i \in 1..6 : LowerHex[i] = c)
HexVal(c) ==
  IF \E i \in 1..16 : HexDigits[i] = c
  THEN (CHOOSE i \in 1..16 : HexDigits[i] = c) - 1
  ELSE 9 + (CHOOSE i \in 1..6 : LowerHex[i] = c)

Alnum == {Ascii[i] : i \in (17..26) \cup (34..59) \cup (66..91)}
IsAlnum(c) == c \in Alnum

ToLower(c) == IF c \in Upper THEN Chr(Ord(c) + 32) ELSE c

\* "%HH" for a byte, upper-case hex as the URL standard's percent-encode writes it.
PercentEncodeByte(n) == <<"%", HexDigits[(n \div 16) + 1], HexDigits[(n % 16) + 1]>>

RECURSIVE Flatten(_)
Flatten(ss) == IF ss = <<>> THEN <<>> ELSE Head(ss) \o Flatten(Tail(ss))

MapChars(s, F(_)) == Flatten([i \in 1..Len(s) |-> F(s[i])])

\* Position of the first character of s, from position i on, that is in set
\* D, or Len(s)+1.
RECURSIVE FirstFrom(_, _, _)
FirstFrom(s, D, i) ==
  IF i > Len(s) THEN i ELSE IF s[i] \in D THEN i ELSE FirstFrom(s, D, i + 1)

FirstIn(s, D) == FirstFrom(s, D, 1)

\* Position of the last character of s, from position i down, that is in D, or 0.
RECURSIVE LastFrom(_, _, _)
LastFrom(s, D, i) ==
  IF i = 0 THEN 0 ELSE IF s[i] \in D THEN i ELSE LastFrom(s, D, i - 1)

LastIn(s, D) == LastFrom(s, D, Len(s))

Before(s, i) == SubSeq(s, 1, i - 1)
After(s, i) == SubSeq(s, i + 1, Len(s))

\* s split on the separator character c.
RECURSIVE Split(_, _)
Split(s, c) ==
  LET i == FirstIn(s, {c}) IN
  IF i > Len(s) THEN <<s>> ELSE <<Before(s, i)>> \o Split(After(s, i), c)

\* Percent-decode: "%" and two hex digits make one byte, anything else is kept.
RECURSIVE PercentDecode(_)
PercentDecode(s) ==
  IF s = <<>> THEN <<>>
  ELSE IF s[1] = "%" /\ Len(s) >= 3 /\ IsHex(s[2]) /\ IsHex(s[3])
       THEN <<Chr(16 * HexVal(s[2]) + HexVal(s[3]))>> \o PercentDecode(SubSeq(s, 4, Len(s)))
       ELSE <<s[1]>> \o PercentDecode(Tail(s))

RECURSIVE DecStr(_)
DecStr(n) == IF n < 10 THEN <<Digits[n + 1]>> ELSE DecStr(n \div 10) \o <<Digits[(n % 10) + 1]>>

RECURSIVE NumVal(_, _, _)
\* Value of digit string s in radix r, on top of acc.
NumVal(s, r, acc) == IF s = <<>> THEN acc ELSE NumVal(Tail(s), r, acc * r + HexVal(s[1]))


(***************************************************************************)
(* new URL(`https://${url}`), line 47: the URL standard's basic URL parser *)
(* for the special scheme https, as far as .host and .searchParams show    *)
(* it.  Failure stands for the TypeError the constructor throws.  Each     *)
(* stage of the parser is an operator on what the stage before produced.   *)
(***************************************************************************)
Failure == <<"failure">>

\* The default port of https, which the parser drops from the URL.
DefaultPort == 443
MaxPort == 65535

C0OrSpace == {" "} \cup {Chr(n) : n \in 0..31}
TabOrNewline == {Chr(9), Chr(10), Chr(13)}

\* Forbidden domain code points: a domain holding one fails to parse.
ForbiddenDomain ==
  {" ", "#", "/", ":", "<", ">", "?", "@", "[", "\\", "]", "^", "|", "%"}

\* Leading and trailing C0 controls and spaces are stripped, tabs and
\* newlines removed.  The input starts with "https://", so only its end can
\* be stripped.
RECURSIVE StripTrailing(_)
StripTrailing(s) ==
  IF s # <<>> /\ s[Len(s)] \in C0OrSpace THEN StripTrailing(Before(s, Len(s))) ELSE s

Preprocess(s) == SelectSeq(StripTrailing(s), LAMBDA c : c \notin TabOrNewline)

\* Special authority ignore slashes state: every "/" and "\" after the
\* scheme's "//" is skipped.
RECURSIVE SkipSlashes(_)
SkipSlashes(s) ==
  IF s # <<>> /\ s[1] \in {"/", "\\"} THEN SkipSlashes(Tail(s)) ELSE s

\* IPv4 number parser: decimal, 0x hexadecimal or 0 octal.  Failure is -1.
Ipv4Digits(d, r) ==
  IF \A i \in 1..Len(d) : IsHex(d[i]) /\ HexVal(d[i]) < r THEN NumVal(d, r, 0) ELSE -1

Ipv4Number(p) ==
  IF p = <<>> THEN -1
  ELSE IF Len(p) >= 2 /\ p[1] = "0" /\ p[2] \in {"x", "X"} THEN Ipv4Digits(SubSeq(p, 3, Len(p)), 16)
  ELSE IF Len(p) >= 2 /\ p[1] = "0" THEN Ipv4Digits(Tail(p), 8)
  ELSE Ipv4Digits(p, 10)

\* The labels of a host, one trailing empty label dropped.
DropEmptyLast(ps) == IF Len(ps) > 1 /\ ps[Len(ps)] = <<>> THEN Before(ps, Len(ps)) ELSE ps
HostParts(h) == DropEmptyLast(Split(h, "."))

\* Ends-in-a-number checker.
IsNumberLabel(last) ==
  last # <<>> /\ ((\A i \in 1..Len(last) : IsDigit(last[i])) \/ Ipv4Number(last) >= 0)

EndsInNumber(ps) == IsNumberLabel(ps[Len(ps)])

Pow256(k) == IF k = 0 THEN 1 ELSE IF k = 1 THEN 256 ELSE IF k = 2 THEN 65536 ELSE 16777216

\* Byte j of the address whose parts are the numbers n: the last number
\* fills the bytes the earlier ones leave.
Ipv4Byte(n, j) == IF j < Len(n) THEN n[j] ELSE (n[Len(n)] \div Pow256(4 - j)) % 256

\* IPv4 parser and serializer: the dotted quad of the address, or Failure
\* (numbers here stay below 2^31, so a single number always fits four bytes).
Ipv4OfNumbers(n) ==
  IF Len(n) > 4 \/ (\E i \in 1..Len(n) : n[i] < 0) \/ (\E i \in 1..(Len(n) - 1) : n[i] > 255)
     \/ (Len(n) > 1 /\ n[Len(n)] >= Pow256(5 - Len(n)))
  THEN Failure
  ELSE DecStr(Ipv4Byte(n, 1)) \o <<".">> \o DecStr(Ipv4Byte(n, 2)) \o <<".">>
       \o DecStr(Ipv4Byte(n, 3)) \o <<".">> \o DecStr(Ipv4Byte(n, 4))

Ipv4(ps) == Ipv4OfNumbers([i \in 1..Len(ps) |-> Ipv4Number(ps[i])])

DomainOrIpv4(ascii, ps) == IF EndsInNumber(ps) THEN Ipv4(ps) ELSE ascii

\* The host of an ASCII domain: no forbidden code point, and an IPv4
\* address when it ends in a number.
HostOfAscii(ascii) ==
  IF ascii = <<>> THEN Failure
  ELSE IF \E i \in 1..Len(ascii) : ascii[i] \in ForbiddenDomain \/ ascii[i] \notin Printable
       THEN Failure
  ELSE DomainOrIpv4(ascii, HostParts(ascii))

\* Domain to ASCII, for ASCII input: lower-casing.
LowerAll(domain) == [i \in 1..Len(domain) |-> ToLower(domain[i])]

\* Host parser for a special scheme: percent-decode, domain to ASCII,
\* forbidden code points, IPv4.  IPv6 literals and non-ASCII (punycode)
\* labels are outside the modelled inputs: "[" and any non-printable
\* character fail here.
ParseHost(buf) == HostOfAscii(LowerAll(PercentDecode(buf)))

RECURSIVE StripZeros(_)
StripZeros(s) == IF s # <<>> /\ s[1] = "0" THEN StripZeros(Tail(s)) ELSE s

PortOfNumber(p) ==
  IF p > MaxPort THEN Failure ELSE IF p = DefaultPort THEN Undef ELSE DecStr(p)

PortOfDigits(d) == IF Len(d) > 5 THEN Failure ELSE PortOfNumber(NumVal(d, 10, 0))

\* Port state: digits only, at most 65535, the default port becomes null
\* (Undef).  The digits are re-serialized from the number.
ParsePort(buf) ==
  IF buf = <<>> THEN Undef
  ELSE IF \E i \in 1..Len(buf) : ~IsDigit(buf[i]) THEN Failure
  ELSE PortOfDigits(StripZeros(buf))

\* The query state percent-encodes the special-query set.
QueryEncodeChar(c) ==
  IF c \in {" ", "\"", "<", ">", "'"} THEN PercentEncodeByte(Ord(c)) ELSE <<c>>

\* The query of what follows the authority: after the first "?", the
\* fragment (from the first "#") left out.
QueryOfNoFragment(t) == MapChars(After(t, FirstIn(t, {"?"})), QueryEncodeChar)
QueryOf(tail) == QueryOfNoFragment(Before(tail, FirstIn(tail, {"#"})))

\* ok is FALSE when the parser fails, and otherwise host is the hostname,
\* with ":port" unless the port is null, and query the query string.
UrlRecord(hostname, port, query) ==
  IF hostname = Failure \/ port = Failure
  THEN [ok |-> FALSE, host |-> <<>>, query |-> <<>>]
  ELSE [ok |-> TRUE,
        host |-> IF port = Undef THEN hostname ELSE hostname \o <<":">> \o port,
        query |-> query]

\* Host state and port state: the host ends at the first ":" (position c).
HostAndPort(hostport, c, tail) ==
  UrlRecord(ParseHost(Before(hostport, c)),
            IF c > Len(hostport) THEN Undef ELSE ParsePort(After(hostport, c)),
            QueryOf(tail))

\* Authority state: credentials end at the last "@".
Authority(authority, at, tail) ==
  HostAndPort(After(authority, at), FirstFrom(authority, {":"}, at + 1) - at, tail)

\* The authority ends at the first "/", "?", "#" or "\" (position e).
AfterScheme(rest, e) ==
  Authority(Before(rest, e), LastFrom(rest, {"@"}, e - 1), SubSeq(rest, e, Len(rest)))

AfterSlashes(rest) == AfterScheme(rest, FirstIn(rest, {"/", "?", "#", "\\"}))

\* What the parser makes of "https://" \o url.
ParseURL(url) ==
  AfterSlashes(SkipSlashes(After(Preprocess(<<"h", "t", "t", "p", "s", ":", "/", "/">> \o url), 8)))

(***************************************************************************)
(* URLSearchParams: the application/x-www-form-urlencoded parser and       *)
(* serializer.                                                             *)
(***************************************************************************)
PlusToSpace(s) == [i \in 1..Len(s) |-> IF s[i] = "+" THEN " " ELSE s[i]]

\* One name-value tuple: x is split at its first "=" (position i).
Tuple(x, i) ==
  [name |-> PercentDecode(PlusToSpace(Before(x, i))),
   value |-> PercentDecode(PlusToSpace(After(x, i)))]

Tuples(seqs) == [i \in 1..Len(seqs) |-> Tuple(seqs[i], FirstIn(seqs[i], {"="}))]

\* The name-value tuples of a query string.
UrlencodedParse(query) == Tuples(SelectSeq(Split(query, "&"), LAMBDA x : x # <<>>))

\* searchParams.get(name): the value of the first tuple of that name, or null
\* (Undef: the code only tests the result with ||).
RECURSIVE ParamsGetFrom(_, _, _)
ParamsGetFrom(params, name, i) ==
  IF i > Len(params) THEN Undef
  ELSE IF params[i].name = name THEN params[i].value
  ELSE ParamsGetFrom(params, name, i + 1)

ParamsGet(params, name) == ParamsGetFrom(params, name, 1)

\* (mutant) the serializer escaping nothing but the space.
UrlencodeChar_Raw(c) == IF c = " " THEN <<"+">> ELSE <<c>>

\* The urlencoded byte serializer.
UrlencodeChar(c) ==
  IF c = " " THEN <<"+">>
  ELSE IF IsAlnum(c) \/ c \in {"*", "-", ".", "_"} THEN <<c>>
  ELSE PercentEncodeByte(Ord(c))

Urlencode(s) == MapChars(s, UrlencodeChar)

\* params.toString() of the tuples set in order.
RECURSIVE UrlencodedSerialize(_)
UrlencodedSerialize(params) ==
  IF params = <<>> THEN <<>>
  ELSE Urlencode(params[1].name) \o <<"=">> \o Urlencode(params[1].value)
       \o (IF Len(params) > 1 THEN <<"&">> \o UrlencodedSerialize(Tail(params)) ELSE <<>>)

(***************************************************************************)
(* The codec, lines 37-94.                                                 *)
(***************************************************************************)
K_owner == <<"o", "w", "n", "e", "r">>
K_repo == <<"r", "e", "p", "o">>
K_organization == <<"o", "r", "g", "a", "n", "i", "z", "a", "t", "i", "o", "n">>
K_workspace == <<"w", "o", "r", "k", "s", "p", "a", "c", "e">>
K_project == <<"p", "r", "o", "j", "e", "c", "t">>

AllAbsent ==
  [host |-> Undef, owner |-> Undef, repo |-> Undef,
   organization |-> Undef, workspace |-> Undef, project |-> Undef]

\* (mutant) the last entry instead of the first.
FirstOwner_Last(allowedOwners) ==
  IF allowedOwners = Undef \/ allowedOwners = <<>> THEN Undef ELSE allowedOwners[Len(allowedOwners)]

\* allowedOwners?.[0]
FirstOwner(allowedOwners) ==
  IF allowedOwners = Undef \/ allowedOwners = <<>> THEN Undef ELSE allowedOwners[1]

\* Lines 48-55: the fields read from the parsed URL.
FieldsOf(host, sp, allowedOwners) ==
  [host |-> host,
   owner |-> Or(ParamsGet(sp, K_owner), FirstOwner(allowedOwners)),
   repo |-> Or(ParamsGet(sp, K_repo), Undef),
   organization |-> Or(ParamsGet(sp, K_organization), Undef),
   workspace |-> Or(ParamsGet(sp, K_workspace), Undef),
   project |-> Or(ParamsGet(sp, K_project), Undef)]

\* Lines 45-59: a URL that fails to parse throws, and the catch leaves
\* every field undefined.
FieldsOfParsed(parsed, allowedOwners) ==
  IF ~parsed.ok THEN AllAbsent
  ELSE FieldsOf(parsed.host, UrlencodedParse(parsed.query), allowedOwners)

splitFormData(url, allowedOwners) ==
  IF ~Truthy(url) THEN AllAbsent ELSE FieldsOfParsed(ParseURL(url), allowedOwners)

Param(k, v) == IF Truthy(v) THEN <<[name |-> k, value |-> v]>> ELSE <<>>

\* (mutant) the early return taken when the repo is missing too.
serializeFormData_NeedsRepo(data) ==
  IF ~Truthy(data.host) \/ ~Truthy(data.repo) THEN Undef
  ELSE data.host \o <<"?">> \o
       UrlencodedSerialize(Param(K_owner, data.owner) \o Param(K_repo, data.repo)
                           \o Param(K_organization, data.organization)
                           \o Param(K_workspace, data.workspace)
                           \o Param(K_project, data.project))

\* (mutant) the project parameter left out.
serializeFormData_NoProject(data) ==
  IF ~Truthy(data.host) THEN Undef
  ELSE data.host \o <<"?">> \o
       UrlencodedSerialize(Param(K_owner, data.owner) \o Param(K_repo, data.repo)
                           \o Param(K_organization, data.organization)
                           \o Param(K_workspace, data.workspace))

serializeFormData(data) ==
  IF ~Truthy(data.host) THEN Undef
  ELSE data.host \o <<"?">> \o
       UrlencodedSerialize(Param(K_owner, data.owner) \o Param(K_repo, data.repo)
                           \o Param(K_organization, data.organization)
                           \o Param(K_workspace, data.workspace)
                           \o Param(K_project, data.project))

(***************************************************************************)
(* The component, lines 96-416.                                            *)
(***************************************************************************)
VARIABLES
  formData,         \* the serialized value the enclosing form owns (prop formData)
  fields,           \* the FieldSet the current render decoded from it, lines 114-117
  allowedOwners,    \* uiSchema['ui:options'].allowedOwners: Undef or a list
  allowedHosts,     \* uiSchema['ui:options'].allowedHosts: Undef or a list
  withCredentials,  \* whether uiSchema['ui:options'].withCredentials is set
  scm,              \* integrationApi.byHost: the provider type of each known host
  integrations,     \* useAsync value: Undef, or the hosts of the integrations list
  loading,          \* useAsync loading
  requests,         \* the URLs of the getCredentials calls made so far, in order
  inflight,         \* the calls (indices of requests) not yet answered
  answered,         \* the calls answered with a token, in order of arrival
  secret,           \* secrets[withCredentials.key]: 0, or the call whose token it is
  emitted,          \* the last onChange call: who made it, with what, from what value
  data,             \* codec runs: the FieldSet handed to serializeFormData
  decoded,          \* codec runs: the FieldSet splitFormData returned
  phase             \* codec runs: what has been applied so far

vars ==
  <<formData, fields, allowedOwners, allowedHosts, withCredentials, scm, integrations, loading,
    requests, inflight, answered, secret, emitted, data, decoded, phase>>

H_github == <<"g", "i", "t", "h", "u", "b", ".", "c", "o", "m">>
H_azure == <<"d", "e", "v", ".", "a", "z", "u", "r", "e", ".", "c", "o", "m">>
H_bitbucket == <<"b", "i", "t", "b", "u", "c", "k", "e", "t", ".", "o", "r", "g">>
\* A self-hosted instance, whose provider type the configuration decides.
H_selfhosted == <<"s", "c", "m", ".", "c", "o", "r", "p">>
\* A configured host that is not in the URL parser's normal form.
H_mixedcase == <<"G", "i", "t", "H", "u", "b", ".", "c", "o", "m">>

\* A serialized host with a path, as a form default may hold it.
H_servervariant == <<"b", "i", "t", "b", "u", "c", "k", "e", "t", ".", "o", "r", "g", "/", "s", "e", "r", "v", "e", "r", "-", "v", "a", "r", "i", "a", "n", "t">>

O_acme == <<"a", "c", "m", "e">>
O_beta == <<"b", "e", "t", "a">>

\* integrationApi.byHost(host)?.type
ProviderType(host) == IF host \in DOMAIN scm THEN scm[host] ELSE "undefined"

\* The FieldSet of the current render, lines 114-117: every render decodes
\* it anew from the formData it is given.
Current == fields

\* hostsOptions, lines 274-278 (the values of the items).
HostsOptions ==
  IF integrations # Undef
  THEN SelectSeq(integrations,
                 LAMBDA h : allowedHosts # Undef /\ \E i \in 1..Len(allowedHosts) : allowedHosts[i] = h)
  ELSE <<<<"l", "o", "a", "d", "i", "n", "g">>>>

\* ownersOptions, lines 280-282.
OwnersOptions == IF allowedOwners # Undef THEN allowedOwners ELSE <<<<"l", "o", "a", "d", "i", "n", "g">>>>

\* (mutant) the organization input shown by provider type, not by host name.
Render_OrganizationByType(host) ==
  IF loading THEN {"progress"}
  ELSE {"host"}
       \cup (IF Truthy(host) /\ ProviderType(host) = "azure" THEN {"organization"} ELSE {})
       \cup (IF Truthy(host) /\ ProviderType(host) = "bitbucket"
             THEN (IF host = H_bitbucket THEN {"workspace"} ELSE {}) \cup {"project"}
             ELSE {})
       \cup (IF Truthy(host) /\ ProviderType(host) # "bitbucket" /\ allowedOwners = Undef
             THEN {"owner"} ELSE {})
       \cup (IF Truthy(host) /\ ProviderType(host) # "bitbucket" /\ allowedOwners # Undef
             THEN {"ownerSelect"} ELSE {})
       \cup {"repo"}

\* (mutant) the owner inputs not guarded by `host &&`.
Render_OwnerWithoutHost(host) ==
  IF loading THEN {"progress"}
  ELSE {"host"}
       \cup (IF host = H_azure THEN {"organization"} ELSE {})
       \cup (IF Truthy(host) /\ ProviderType(host) = "bitbucket"
             THEN (IF host = H_bitbucket THEN {"workspace"} ELSE {}) \cup {"project"}
             ELSE {})
       \cup (IF ProviderType(host) # "bitbucket" /\ allowedOwners = Undef
             THEN {"owner"} ELSE {})
       \cup (IF ProviderType(host) # "bitbucket" /\ allowedOwners # Undef
             THEN {"ownerSelect"} ELSE {})
       \cup {"repo"}

\* (mutant) the workspace input shown for every bitbucket host.
Render_WorkspaceAnyBitbucket(host) ==
  IF loading THEN {"progress"}
  ELSE {"host"}
       \cup (IF host = H_azure THEN {"organization"} ELSE {})
       \cup (IF Truthy(host) /\ ProviderType(host) = "bitbucket"
             THEN {"workspace", "project"}
             ELSE {})
       \cup (IF Truthy(host) /\ ProviderType(host) # "bitbucket" /\ allowedOwners = Undef
             THEN {"owner"} ELSE {})
       \cup (IF Truthy(host) /\ ProviderType(host) # "bitbucket" /\ allowedOwners # Undef
             THEN {"ownerSelect"} ELSE {})
       \cup {"repo"}

\* The inputs the render returns for the host of the current FieldSet, lines 270-416.
Render(host) ==
  IF loading THEN {"progress"}
  ELSE {"host"}
       \cup (IF host = H_azure THEN {"organization"} ELSE {})
       \cup (IF Truthy(host) /\ ProviderType(host) = "bitbucket"
             THEN (IF host = H_bitbucket THEN {"workspace"} ELSE {}) \cup {"project"}
             ELSE {})
       \cup (IF Truthy(host) /\ ProviderType(host) # "bitbucket" /\ allowedOwners = Undef
             THEN {"owner"} ELSE {})
       \cup (IF Truthy(host) /\ ProviderType(host) # "bitbucket" /\ allowedOwners # Undef
             THEN {"ownerSelect"} ELSE {})
       \cup {"repo"}

Rendered == Render(Current.host)

\* `https://${host}/${owner}/${repo}`, line 128.
CredentialsUrl(host, owner, repo) ==
  <<"h", "t", "t", "p", "s", ":", "/", "/">> \o host \o <<"/">> \o owner \o <<"/">> \o repo

NoEmit == [by |-> "none", arg |-> Undef, prev |-> Undef, req |-> Undef]

\* onChange(value): the enclosing form stores the value and the field
\* renders again with it.
OnChange(by, arg, value, req) ==
  /\ formData' = value
  /\ fields' = splitFormData(value, allowedOwners)
  /\ emitted' = [by |-> by, arg |-> arg, prev |-> formData, req |-> req]

\* The URL check(), lines 124-134, asks credentials for, or Undef when it
\* asks for none: host, owner and repo are those of the render whose onBlur
\* is called, lines 119-136.
BlurUrl(cur) ==
  IF withCredentials /\ Truthy(cur.host) /\ Truthy(cur.owner) /\ Truthy(cur.repo)
  THEN CredentialsUrl(cur.host, cur.owner, cur.repo)
  ELSE Undef

\* The bookkeeping of a getCredentials call for url (none when url is Undef).
Issue(url) ==
  IF url = Undef
  THEN UNCHANGED <<requests, inflight>>
  ELSE /\ requests' = Append(requests, url)
       /\ inflight' = inflight \cup {Len(requests) + 1}

\* At most this many getCredentials calls are made in a run.
MaxRequests == 2

\* What the user types or picks (the empty string clears an input).
OwnerValues == {<<>>, O_acme}
RepoValues == {<<>>, <<"r", " ", "1">>}
OrganizationValues == {<<"o", "r", "g", "1">>}
WorkspaceValues == {<<"w", "s">>}
ProjectValues == {<<"p", "&", "q">>}

\* The values the enclosing form may hold when the field mounts.
InitialFormData ==
  {Undef, H_servervariant \o <<"?", "r", "e", "p", "o", "=", "w", "i", "d", "g", "e", "t", "s">>, <<"G", "i", "t", "H", "u", "b", ".", "c", "o", "m", ":", "4", "4", "3", "?", "o", "w", "n", "e", "r", "=", "b", "e", "t", "a">>, <<"n", "o", "t", " ", "a", " ", "h", "o", "s", "t">>}

\* What getIntegrationsList may resolve to (the hosts of the entries).
IntegrationLists ==
  {<<>>, <<H_selfhosted>>, <<H_mixedcase>>, <<H_github, H_azure, H_bitbucket>>}

AllowedHostsOptions == {Undef, <<H_github, H_azure, H_bitbucket, H_selfhosted>>}
AllowedOwnersOptions == {Undef, <<O_acme, O_beta>>}

ScmConfigs ==
  {(H_github :> "github") @@ (H_azure :> "azure") @@ (H_bitbucket :> "bitbucket")
     @@ (H_selfhosted :> t) : t \in {"azure", "bitbucket"}}

\* Configurations without credential capture: every option varies.
InitPlain ==
  /\ formData \in InitialFormData
  /\ allowedOwners \in AllowedOwnersOptions
  /\ allowedHosts \in AllowedHostsOptions
  /\ withCredentials = FALSE
  /\ scm \in ScmConfigs

\* Configurations with credential capture: the owner comes from a one-entry
\* allowedOwners list, the hosts offered are github.com and the self-hosted one.
InitCredentials ==
  /\ formData = Undef
  /\ allowedOwners = <<O_acme>>
  /\ allowedHosts = <<H_github, H_selfhosted>>
  /\ withCredentials = TRUE
  /\ scm = (H_github :> "github") @@ (H_selfhosted :> "gitlab")

Init ==
  /\ InitPlain \/ InitCredentials
  /\ fields = splitFormData(formData, allowedOwners)
  /\ integrations = Undef
  /\ loading = TRUE
  /\ requests = <<>>
  /\ inflight = {}
  /\ answered = <<>>
  /\ secret = 0
  /\ emitted = NoEmit
  /\ data = AllAbsent
  /\ decoded = AllAbsent
  /\ phase = "component"

config == <<allowedOwners, allowedHosts, withCredentials, scm>>
codec == <<data, decoded, phase>>
credentials == <<requests, inflight, answered, secret>>

\* useAsync, lines 110-112: the list arrives.
IntegrationsLoaded(list) ==
  /\ phase = "component"
  /\ loading
  /\ withCredentials => list = <<H_github, H_selfhosted>>
  /\ integrations' = list
  /\ loading' = FALSE
  /\ UNCHANGED <<formData, fields, emitted, config, codec, credentials>>

\* useAsync: getIntegrationsList rejects; value stays undefined.
IntegrationsFailed ==
  /\ phase = "component"
  /\ loading
  /\ loading' = FALSE
  /\ UNCHANGED <<formData, fields, integrations, emitted, config, codec, credentials>>

\* (mutant) the effect not guarded by `host === undefined`.
DefaultHostNeeded_AnyHost(host) == integrations # Undef /\ Len(integrations) > 0

\* The condition of the effect, line 247.
DefaultHostNeeded(host) == host = Undef /\ integrations # Undef /\ Len(integrations) > 0

\* useEffect, lines 246-268.
DefaultHostEffect ==
  LET cur == Current IN
  /\ phase = "component"
  /\ DefaultHostNeeded(cur.host)
  /\ OnChange("effect", integrations[1],
              serializeFormData([cur EXCEPT !.host = integrations[1]]), Undef)
  /\ UNCHANGED <<integrations, loading, config, codec, credentials>>

\* updateHost, lines 138-154: onChange, then onBlur() of the current render.
updateHost(value) ==
  LET cur == Current
      url == BlurUrl(cur)
  IN
  /\ phase = "component"
  /\ "host" \in Render(cur.host)
  /\ Len(HostsOptions) # 1
  /\ \E i \in 1..Len(HostsOptions) : HostsOptions[i] = value
  /\ url # Undef => Len(requests) < MaxRequests
  /\ OnChange("updateHost", value, serializeFormData([cur EXCEPT !.host = value]), url)
  /\ Issue(url)
  /\ UNCHANGED <<integrations, loading, config, codec, answered, secret>>

\* An edit handler that only calls onChange, lines 156-244: input is the
\* input it is attached to, next what it hands to serializeFormData.
Edit(by, input, host, value, next) ==
  /\ phase = "component"
  /\ input \in Render(host)
  /\ OnChange(by, value, serializeFormData(next), Undef)
  /\ UNCHANGED <<integrations, loading, config, codec, credentials>>

updateOwnerSelect(value) ==
  LET cur == Current IN
  /\ Len(OwnersOptions) # 1
  /\ \E i \in 1..Len(OwnersOptions) : OwnersOptions[i] = value
  /\ Edit("updateOwnerSelect", "ownerSelect", cur.host, value,
          [host |-> cur.host, owner |-> value, repo |-> cur.repo,
           organization |-> cur.organization, workspace |-> cur.workspace,
           project |-> cur.project])

updateOwner(value) ==
  LET cur == Current IN
  Edit("updateOwner", "owner", cur.host, value,
       [host |-> cur.host, owner |-> value, repo |-> cur.repo,
        organization |-> cur.organization, workspace |-> cur.workspace,
        project |-> cur.project])

updateRepo(value) ==
  LET cur == Current IN
  Edit("updateRepo", "repo", cur.host, value,
       [host |-> cur.host, owner |-> cur.owner, repo |-> value,
        organization |-> cur.organization, workspace |-> cur.workspace,
        project |-> cur.project])

updateOrganization(value) ==
  LET cur == Current IN
  Edit("updateOrganization", "organization", cur.host, value,
       [host |-> cur.host, owner |-> cur.owner, repo |-> cur.repo,
        organization |-> value, workspace |-> cur.workspace,
        project |-> cur.project])

updateWorkspace(value) ==
  LET cur == Current IN
  Edit("updateWorkspace", "workspace", cur.host, value,
       [host |-> cur.host, owner |-> cur.owner, repo |-> cur.repo,
        organization |-> cur.organization, workspace |-> value,
        project |-> cur.project])

updateProject(value) ==
  LET cur == Current IN
  Edit("updateProject", "project", cur.host, value,
       [host |-> cur.host, owner |-> cur.owner, repo |-> cur.repo,
        organization |-> cur.organization, workspace |-> cur.workspace,
        project |-> value])

\* onBlur of the repository input, lines 119-136 and 411.
onBlur ==
  LET cur == Current
      url == BlurUrl(cur)
  IN
  /\ phase = "component"
  /\ ~loading
  /\ url # Undef => Len(requests) < MaxRequests
  /\ Issue(url)
  /\ UNCHANGED <<formData, fields, emitted, integrations, loading, config, codec, answered, secret>>

\* (mutant) the token of a call that is no longer the latest is discarded.
setSecret_DiscardStale(current, id) == IF id = Len(requests) THEN id ELSE current

\* setSecret({ [withCredentials.key]: token.token }), line 131: the token of
\* call id replaces whatever the key held.
setSecret(current, id) == id

\* getCredentials of call id resolves, lines 127-131.
CredentialsResolved(id) ==
  /\ phase = "component"
  /\ id \in inflight
  /\ inflight' = inflight \ {id}
  /\ answered' = Append(answered, id)
  /\ secret' = setSecret(secret, id)
  /\ UNCHANGED <<formData, fields, emitted, integrations, loading, config, codec, requests>>

\* getCredentials of call id rejects: nothing is stored.
CredentialsRejected(id) ==
  /\ phase = "component"
  /\ id \in inflight
  /\ inflight' = inflight \ {id}
  /\ UNCHANGED <<formData, fields, emitted, integrations, loading, config, codec, requests, answered, secret>>

Next ==
  \/ \E list \in IntegrationLists \cup {<<H_github, H_selfhosted>>} : IntegrationsLoaded(list)
  \/ IntegrationsFailed
  \/ DefaultHostEffect
  \/ \E value \in {H_github, H_azure, H_bitbucket, H_selfhosted} : updateHost(value)
  \/ \E value \in {O_acme, O_beta} : updateOwnerSelect(value)
  \/ \E value \in OwnerValues : updateOwner(value)
  \/ \E value \in RepoValues : updateRepo(value)
  \/ \E value \in OrganizationValues : updateOrganization(value)
  \/ \E value \in WorkspaceValues : updateWorkspace(value)
  \/ \E value \in ProjectValues : updateProject(value)
  \/ onBlur
  \/ \E id \in 1..MaxRequests : CredentialsResolved(id)
  \/ \E id \in 1..MaxRequests : CredentialsRejected(id)

Spec == Init /\ [][Next]_vars


(***************************************************************************)
(* The codec on its own: serializeFormData and splitFormData applied to    *)
(* inputs drawn from bounded sets.                                         *)
(***************************************************************************)
MaxHostLen == 2
MaxValueLen == 2

\* All strings over alphabet A of length at most n.
Strings(A, n) == UNION {[1..k -> A] : k \in 0..n}

\* Characters the URL parser treats differently in a host.
HostAlphabet == {"a", "A", "1", ".", ":", "/", "?", "#", " "}
\* Characters the urlencoded serializer and parser treat differently.
ValueAlphabet == {"a", " ", "&", "=", "%", "+", "#", "2"}

HostInputs ==
  {Undef} \cup Strings(HostAlphabet, MaxHostLen)
  \cup {H_github, H_azure, H_bitbucket, H_mixedcase, H_servervariant, <<"H", "o", "s", "t", ":", "4", "4", "3">>}

\* FieldSets whose host varies.
HostFieldSets ==
  {[host |-> h, owner |-> o, repo |-> r,
    organization |-> x[1], workspace |-> x[2], project |-> x[3]] :
     h \in HostInputs, o \in {Undef, <<>>, O_acme}, r \in {Undef, <<"r", " ", "1">>},
     x \in {<<Undef, Undef, Undef>>, <<<<"o", "r", "g", "1">>, <<"w", "s">>, <<"p", "&", "q">>>>}}

\* FieldSets whose values vary.
ValueFieldSets ==
  {[host |-> H_github, owner |-> o, repo |-> r,
    organization |-> x[1], workspace |-> x[2], project |-> x[3]] :
     o \in Strings(ValueAlphabet, MaxValueLen), r \in {Undef, <<"r", " ", "1">>},
     x \in {<<Undef, <<>>, Undef>>, <<<<"o", "r", "g", "1">>, <<"w", "s">>, <<"p", "&", "q">>>>}}

\* Serialized values handed to splitFormData as they are.
RawValues ==
  {Undef, <<>>}
  \cup {h \o q : h \in (HostInputs \ {Undef}),
                 q \in {<<>>, <<"?", "r", "e", "p", "o", "=", "w", "i", "d", "g", "e", "t", "s">>, <<"?", "o", "w", "n", "e", "r", "=", "a", "c", "m", "e", "&", "r", "e", "p", "o", "=", "w", "i", "d", "g", "e", "t", "s">>, <<"?", "r", "e", "p", "o", "=", "r", "&", "o", "w", "n", "e", "r", "=", "&", "o", "w", "n", "e", "r", "=", "x">>}}

CodecOwners == {Undef, <<>>, <<O_acme, O_beta>>}

InitCodec ==
  /\ phase = "new"
  /\ allowedOwners \in CodecOwners
  /\ \/ data \in (HostFieldSets \cup ValueFieldSets) /\ formData = Undef
     \/ data = AllAbsent /\ formData \in RawValues
  /\ decoded = AllAbsent
  /\ fields = AllAbsent
  /\ allowedHosts = Undef
  /\ withCredentials = FALSE
  /\ scm = <<>>
  /\ integrations = Undef
  /\ loading = FALSE
  /\ requests = <<>>
  /\ inflight = {}
  /\ answered = <<>>
  /\ secret = 0
  /\ emitted = NoEmit

component ==
  <<fields, allowedOwners, allowedHosts, withCredentials, scm, integrations, loading,
    requests, inflight, answered, secret, emitted>>

\* serializeFormData(data)
Encode ==
  /\ phase = "new"
  /\ formData = Undef
  /\ formData' = serializeFormData(data)
  /\ phase' = "encoded"
  /\ UNCHANGED <<data, decoded, component>>

\* splitFormData(serializeFormData(data), allowedOwners)
Decode ==
  /\ phase = "encoded"
  /\ decoded' = splitFormData(formData, allowedOwners)
  /\ phase' = "roundtrip"
  /\ UNCHANGED <<formData, data, component>>

\* splitFormData(formData, allowedOwners) of a serialized value as given
DecodeRaw ==
  /\ phase = "new"
  /\ data = AllAbsent
  /\ decoded' = splitFormData(formData, allowedOwners)
  /\ phase' = "decoded"
  /\ UNCHANGED <<formData, data, component>>

NextCodec == Encode \/ Decode \/ DecodeRaw

SpecCodec == InitCodec /\ [][NextCodec]_vars


(***************************************************************************)
(* Properties of the codec (checked under SpecCodec).                      *)
(***************************************************************************)
\* An absent field: undefined or the empty string.
Norm(x) == IF Truthy(x) THEN x ELSE Undef

\* The FieldSet the round-trip law expects back from d.
Expected(d, owners) ==
  [host |-> d.host,
   owner |-> Or(d.owner, FirstOwner(owners)),
   repo |-> Norm(d.repo),
   organization |-> Norm(d.organization),
   workspace |-> Norm(d.workspace),
   project |-> Norm(d.project)]

\* h is a host as the URL parser returns it: parsing "https://" \o h gives
\* back h as the host and nothing else.
NormalHost(h) == Truthy(h) /\ ParseURL(h) = [ok |-> TRUE, host |-> h, query |-> <<>>]

\* C1 as stated: for every FieldSet whose host is defined, decoding the
\* encoded FieldSet returns it, an absent owner replaced by allowedOwners[0].
C1_RoundTripAnyHost ==
  (phase = "roundtrip" /\ Truthy(data.host)) => decoded = Expected(data, allowedOwners)

\* C1 amended: for every FieldSet whose host is in the URL parser's normal
\* form, decoding the encoded FieldSet returns its host and its non-empty
\* fields, an absent (undefined or empty) owner replaced by allowedOwners[0]
\* and any other empty field returned as undefined.
C1_RoundTripNormalHost ==
  (phase = "roundtrip" /\ NormalHost(data.host)) => decoded = Expected(data, allowedOwners)

\* A round trip of a FieldSet with a normal host, an absent owner that is
\* backfilled and a value that needs escaping.
C1_Witness ==
  /\ phase = "roundtrip"
  /\ data.host = H_github
  /\ data.owner = Undef
  /\ data.project = <<"p", "&", "q">>
  /\ decoded.owner = O_acme
  /\ decoded.project = <<"p", "&", "q">>

\* C2: serializeFormData returns undefined exactly when the host is unset
\* (undefined or empty); with a host set it returns a string, whatever the
\* other fields are.
C2_UndefinedIffNoHost ==
  phase = "encoded" => ((formData = Undef) <=> ~Truthy(data.host))

\* A host with every other field absent is serialized to a string.
C2_Witness ==
  /\ phase = "encoded"
  /\ data = [AllAbsent EXCEPT !.host = H_github]
  /\ formData = H_github \o <<"?">>

\* The serialized value v carries no owner: it is undefined or empty, does
\* not parse, or has no non-empty owner parameter.
NoOwnerIn(parsed) == ~parsed.ok \/ ~Truthy(ParamsGet(UrlencodedParse(parsed.query), K_owner))
CarriesNoOwner(v) == ~Truthy(v) \/ NoOwnerIn(ParseURL(v))

\* C3 as stated: for every serialized value, the undefined one included,
\* that carries no owner, a non-empty allowedOwners list makes owner its
\* first entry.
C3_BackfillAlways ==
  (phase = "decoded" /\ FirstOwner(allowedOwners) # Undef /\ CarriesNoOwner(formData))
    => decoded.owner = allowedOwners[1]

\* Whether splitFormData gets as far as reading the parameters of v.
Parses(v) == Truthy(v) /\ ParseURL(v).ok

\* C3 amended: with a non-empty allowedOwners list, a serialized value that
\* parses as a URL and carries no owner decodes to owner allowedOwners[0];
\* an undefined, empty or unparseable value decodes to no owner at all.
C3_BackfillWhenParsed ==
  (phase = "decoded" /\ FirstOwner(allowedOwners) # Undef /\ CarriesNoOwner(formData))
    => decoded.owner = (IF Parses(formData) THEN allowedOwners[1] ELSE Undef)

\* A value without owner decoded under allowedOwners = [acme, beta].
C3_Witness ==
  /\ phase = "decoded"
  /\ formData = H_github \o <<"?", "r", "e", "p", "o", "=", "w", "i", "d", "g", "e", "t", "s">>
  /\ allowedOwners = <<O_acme, O_beta>>
  /\ decoded.owner = O_acme


(***************************************************************************)
(* Properties of the component (checked under Spec).                       *)
(***************************************************************************)
\* The host as written in a serialized value: what precedes the first "?".
SerializedHost(v) == IF Truthy(v) THEN Before(v, FirstIn(v, {"?"})) ELSE Undef

\* The owner input of the configuration: free text, or the closed choice.
OwnerInput == IF allowedOwners = Undef THEN "owner" ELSE "ownerSelect"

AzureRender == ~loading /\ Truthy(fields.host) /\ ProviderType(fields.host) = "azure"

\* C4 as stated: with a host of provider type azure the inputs shown are
\* exactly host, organization and repo.
C4_AzureHostOrganizationRepo ==
  AzureRender => Rendered = {"host", "organization", "repo"}

\* C4 amended: with a host of provider type azure the inputs shown are host,
\* the owner input (free text, or the closed choice when allowedOwners is
\* configured) and repo, and organization exactly when the host is
\* dev.azure.com; workspace and project are hidden.
C4_AzureInputs ==
  AzureRender =>
    Rendered = {"host", OwnerInput, "repo"}
               \cup (IF fields.host = H_azure THEN {"organization"} ELSE {})

\* dev.azure.com, of type azure, rendered with its owner input.
C4_Witness ==
  /\ AzureRender
  /\ fields.host = H_azure
  /\ Rendered = {"host", "organization", "owner", "repo"}

NoHostRender == ~loading /\ fields.host = Undef

\* C5 as stated: with no host decoded, only the host picker is shown.
C5_NoHostOnlyPicker == NoHostRender => Rendered = {"host"}

\* C5 amended: with no host decoded, the host picker and the repository
\* input are shown; owner, organization, workspace and project are hidden.
C5_NoHostPickerAndRepo == NoHostRender => Rendered = {"host", "repo"}

\* A render after the list has loaded empty and no host is decoded.
C5_Witness == NoHostRender /\ integrations = <<>> /\ "repo" \in Rendered

BitbucketRender == ~loading /\ Truthy(fields.host) /\ ProviderType(fields.host) = "bitbucket"

\* What C6 says of every host of provider type bitbucket.
BitbucketInputs ==
  /\ {"project", "repo"} \subseteq Rendered
  /\ Rendered \cap {"owner", "ownerSelect"} = {}
  /\ "workspace" \in Rendered <=> fields.host = H_bitbucket

\* C6 as stated: with a decoded host of provider type bitbucket, project and
\* repo are shown, owner is hidden, workspace is shown iff the host is
\* bitbucket.org; so the serialized host bitbucket.org/server-variant hides
\* workspace and shows project.
C6_ServerVariantHidesWorkspace ==
  BitbucketRender =>
    /\ BitbucketInputs
    /\ SerializedHost(formData) = H_servervariant =>
         ("workspace" \notin Rendered /\ "project" \in Rendered)

\* C6 amended: with a decoded host of provider type bitbucket, project and
\* repo are shown, owner is hidden, workspace is shown iff the decoded host
\* is bitbucket.org; the serialized host bitbucket.org/server-variant
\* decodes to bitbucket.org, so it shows workspace as well as project.
C6_BitbucketInputs ==
  BitbucketRender =>
    /\ BitbucketInputs
    /\ SerializedHost(formData) = H_servervariant =>
         (fields.host = H_bitbucket /\ {"workspace", "project"} \subseteq Rendered)

\* The serialized host bitbucket.org/server-variant rendered with workspace.
C6_Witness ==
  /\ BitbucketRender
  /\ SerializedHost(formData) = H_servervariant
  /\ "workspace" \in Rendered

\* The FieldSet of the render in which the last onChange call was made.
EmittedFrom == splitFormData(emitted.prev, allowedOwners)

\* The last onChange call came from the default-host effect.
EffectEmitted == emitted.by = "effect"

\* C7 as stated: the effect emits only with no host decoded and a non-empty
\* list, and what it emits decodes to the first integration's host with
\* owner, repo, organization, workspace and project unchanged.
EffectKeeps(before) ==
  /\ before.host = Undef
  /\ integrations # Undef /\ integrations # <<>>
  /\ fields = [before EXCEPT !.host = integrations[1]]

C7_EffectKeepsFields == EffectEmitted => EffectKeeps(EmittedFrom)

\* What the effect's emission decodes to: the first integration's host as
\* the URL parser normalises it, the owner backfilled.
EffectSets(before) ==
  /\ before.host = Undef
  /\ integrations # Undef /\ integrations # <<>>
  /\ emitted.arg = integrations[1]
  /\ NormalHost(integrations[1]) => fields.host = integrations[1]
  /\ fields = [before EXCEPT !.host = ParseURL(integrations[1]).host,
                             !.owner = Or(before.owner, FirstOwner(allowedOwners))]

\* C7 amended: the effect emits only with no host decoded and a non-empty
\* list; what it emits decodes to the first integration's host (as the URL
\* parser normalises it: the host itself when it is in normal form) with
\* repo, organization, workspace and project unchanged and owner unchanged
\* unless allowedOwners is configured, when it decodes to allowedOwners[0];
\* and once a host is decoded it stays decoded and the effect never emits.
C7_DefaultHostEffect ==
  /\ [](EffectEmitted => EffectSets(EmittedFrom))
  /\ [][Truthy(fields.host) =>
          (Truthy(fields'.host) /\ ~(emitted' # emitted /\ emitted'.by = "effect"))]_vars

\* The effect has emitted the first integration's host for a value that had
\* none, and the emission decodes with the owner backfilled.
C7_Witness ==
  /\ EffectEmitted
  /\ emitted.prev = Undef
  /\ fields.host = integrations[1]
  /\ fields.owner = O_acme

\* C8: with withCredentials configured, an edit of the host to h with owner
\* o and repo r non-empty asks credentials for https://h/o/r, the URL of the
\* host, owner and repo as they stand after the edit.
C8_HostEditRequestsNewUrl ==
  (withCredentials /\ emitted.by = "updateHost"
     /\ Truthy(fields.host) /\ Truthy(fields.owner) /\ Truthy(fields.repo))
    => emitted.req = CredentialsUrl(fields.host, fields.owner, fields.repo)

\* C9: nothing cancels or orders the credential calls: whenever a response
\* has arrived, the secret holds the token of the response that arrived
\* last, whether or not a later call has been made; so a token that is not
\* that of the most recent call can be what is stored.
C9_LastResponseWins ==
  answered # <<>> => secret = answered[Len(answered)]

\* Two calls for different URLs, the later answered first: the secret holds
\* the token of the earlier call.
C9_StaleTokenStored ==
  /\ Len(requests) = 2
  /\ requests[1] # requests[2]
  /\ answered = <<2, 1>>
  /\ secret = 1

\* The handlers that edit one field, and the field each edits.
EditHandlers ==
  {"updateOwner", "updateOwnerSelect", "updateRepo", "updateOrganization",
   "updateWorkspace", "updateProject"}

EditedField(by) ==
  CASE by \in {"updateOwner", "updateOwnerSelect"} -> "owner"
    [] by = "updateRepo" -> "repo"
    [] by = "updateOrganization" -> "organization"
    [] by = "updateWorkspace" -> "workspace"
    [] by = "updateProject" -> "project"

EditMade == emitted.by \in EditHandlers /\ Truthy(emitted.arg)

\* C10 as stated: an edit of one field to a non-empty value v emits a value
\* that decodes to v in that field and to the current value in every other.
EditKept(before) == fields = [before EXCEPT ![EditedField(emitted.by)] = emitted.arg]

C10_EditChangesOnlyItsField == EditMade => EditKept(EmittedFrom)

\* C10 amended: when a host is decoded, an edit of one field to a non-empty
\* value v emits a value that decodes to v in that field and to the current
\* value in every other; when no host is decoded (only the repository input
\* is shown then) the edit emits undefined and is dropped.
EditKeptWithHost(before) ==
  IF Truthy(before.host)
  THEN EditKept(before)
  ELSE emitted.by = "updateRepo" /\ formData = Undef /\ fields = AllAbsent

C10_EditWithHostChangesOnlyItsField == EditMade => EditKeptWithHost(EmittedFrom)

\* A project edit, with a value that needs escaping, on a value with a host.
C10_Witness ==
  /\ emitted.by = "updateProject"
  /\ Truthy(emitted.arg)
  /\ fields.project = emitted.arg
  /\ Truthy(fields.repo)
  /\ splitFormData(emitted.prev, allowedOwners).project = Undef

=============================================================================
